---- MODULE Spec2Model ----
(***************************************************************************)
(* Calculation-project lifecycle manager of the quantum_computation        *)
(* server: CalculationInfo / CalculationProject (data_class.py) and the    *)
(* orchestrator, poller and streamer (calculation_utils.py).               *)
(*                                                                         *)
(* The project folder is the variable disk; the in-memory                  *)
(* CalculationProject object is proj.  Python values that reach json.dump  *)
(* are tagged values [t |-> <python type>, v |-> <payload>], the content   *)
(* of a file is a JSON value [j |-> <json kind>, v |-> <payload>].         *)
(***************************************************************************)
EXTENDS Integers, Sequences, FiniteSets, TLC

VARIABLES
    disk,       \* the project folder on the filesystem
    proj,       \* the caller's CalculationProject object
    lastCall,   \* history variable: the last operation, its inputs and outcome
    sync,       \* history variable: only bootstrap/add_new of proj wrote the index
    rec,        \* round trip: the CalculationInfo being saved
    loaded,     \* round trip: the CalculationInfo read back
    now,        \* wall clock, in seconds
    finishedAt, \* history variable: when the watched record became finished, -1 before
    poll,       \* check_calculation_result: its position, locals and result
    stream,     \* stream_calculation_log: its position, locals and emitted items
    orch,       \* perform_calculation in each process: its position and locals
    reader      \* the last read of a record's status, and the IDs read as finished

vars == <<disk, proj, lastCall, sync, rec, loaded, now, finishedAt, poll, stream,
          orch, reader>>

recVars == <<rec, loaded>>
watchVars == <<now, finishedAt, poll, stream>>
raceVars == <<orch, reader>>

-----------------------------------------------------------------------------
(* Bounds of the model *)

\* longest history (info_list) the model builds
MaxHist == 3

\* records appended to a project that the orchestrator starts from
MaxInit == 2

\* the calculation IDs of the model, in the order uuid4 hands them out
IdSeq == <<"c1", "c2", "c3", "c4">>
Ids == {IdSeq[i] : i \in 1..Len(IdSeq)}

\* calculation IDs that callers supply
CallerIds == {"c1", "c2", "c3"}

\* the project folder, as path components
Root == <<"work", "proj">>

Structures == {"Si", "GaAs"}

-----------------------------------------------------------------------------
(* Python values and their JSON encoding *)

PyNone == [t |-> "NoneType", v |-> <<>>]

\* mutant: the np.floating branch converts with int() like the branch above it
convert_value_FloatAsInt(value) ==
    CASE value.t = "np.bool_"    -> [t |-> "bool", v |-> value.v]
      [] value.t = "np.integer"  -> [t |-> "int", v |-> value.v]
      [] value.t = "np.floating" -> [t |-> "int", v |-> value.v]
      [] value.t = "ndarray"     -> [t |-> "list", v |-> value.v]
      [] OTHER                   -> value

\* convert_value: numpy scalars and arrays become native values
convert_value(value) ==
    CASE value.t = "np.bool_"    -> [t |-> "bool", v |-> value.v]
      [] value.t = "np.integer"  -> [t |-> "int", v |-> value.v]
      [] value.t = "np.floating" -> [t |-> "float", v |-> value.v]
      [] value.t = "ndarray"     -> [t |-> "list", v |-> value.v]
      [] OTHER                   -> value

\* json.dump of one value: the JSON kind the encoder writes
JsonDumpValue(value) ==
    CASE value.t = "NoneType"        -> [j |-> "null", v |-> value.v]
      [] value.t = "bool"            -> [j |-> "boolean", v |-> value.v]
      [] value.t = "int"             -> [j |-> "integer", v |-> value.v]
      [] value.t = "float"           -> [j |-> "real", v |-> value.v]
      [] value.t = "str"             -> [j |-> "string", v |-> value.v]
      [] value.t \in {"list", "tuple"} -> [j |-> "array", v |-> value.v]
      [] OTHER                       -> [j |-> "TypeError", v |-> value.v]

\* json.load of one value: the Python type the decoder builds
JsonLoadValue(jv) ==
    CASE jv.j = "null"    -> [t |-> "NoneType", v |-> jv.v]
      [] jv.j = "boolean" -> [t |-> "bool", v |-> jv.v]
      [] jv.j = "integer" -> [t |-> "int", v |-> jv.v]
      [] jv.j = "real"    -> [t |-> "float", v |-> jv.v]
      [] jv.j = "string"  -> [t |-> "str", v |-> jv.v]
      [] jv.j = "array"   -> [t |-> "list", v |-> jv.v]
      [] OTHER            -> [t |-> "JSONDecodeError", v |-> jv.v]

\* calculation_parameters: None, or a dict from string keys to values
NoParams == [isNone |-> TRUE, items |-> <<>>]
Params(items) == [isNone |-> FALSE, items |-> items]

\* convert_value on calculation_parameters (the dict branch, recursively)
ConvertParams(p) ==
    [isNone |-> p.isNone,
     items |-> [k \in DOMAIN p.items |-> convert_value(p.items[k])]]

JsonDumpParams(p) ==
    [isNone |-> p.isNone,
     items |-> [k \in DOMAIN p.items |-> JsonDumpValue(p.items[k])]]

JsonLoadParams(jp) ==
    [isNone |-> jp.isNone,
     items |-> [k \in DOMAIN jp.items |-> JsonLoadValue(jp.items[k])]]

-----------------------------------------------------------------------------
(* CalculationInfo *)

Basename(path) == path[Len(path)]
Join(path, name) == Append(path, name)

\* the calculation folder a file path lies in
PathId(path) == path[Len(path) - 1]

\* CalculationInfo.__init__, the new-calculation branch, with define_file_paths
NewInfo(project_folder_path, calculation_id, calculation_type, calculation_parameters) ==
    LET calculation_folder == Join(project_folder_path, calculation_id) IN
    [project_folder_path    |-> project_folder_path,
     project_id             |-> Basename(project_folder_path),
     calculation_id         |-> calculation_id,
     calculation_type       |-> calculation_type,
     calculation_parameters |-> calculation_parameters,
     calculation_status     |-> "initialized",
     info_file_path         |-> Join(calculation_folder, "info.json"),
     structure_file_path    |-> Join(calculation_folder, "structure.json"),
     status_file_path       |-> Join(calculation_folder, "status.txt"),
     trajectory_file_path   |-> Join(calculation_folder, "trajectory.traj"),
     log_file_path          |-> Join(calculation_folder, "log.txt"),
     ckpt_file_path         |-> Join(calculation_folder, "ckpt.gpw")]

\* to_dict: every public attribute, passed through convert_value
to_dict(info) ==
    [info EXCEPT !.calculation_parameters = ConvertParams(@)]

\* what json.dump writes for to_dict()
JsonDump(d) ==
    [d EXCEPT !.calculation_parameters = JsonDumpParams(@)]

\* from_dict on what json.load reads
from_dict(data) ==
    [data EXCEPT !.calculation_parameters = JsonLoadParams(@)]

\* mutant: nothing is written
save_to_file_Dropped(d, info) == d

\* save_to_file(): info.json of the folder named by self.info_file_path
save_to_file(d, info) ==
    [d EXCEPT !.info = (PathId(info.info_file_path) :> JsonDump(to_dict(info))) @@ @]

\* from_file on <root>/<calculation_id>/info.json
from_file(d, calculation_id) == from_dict(d.info[calculation_id])

InfoExists(d, calculation_id) == calculation_id \in DOMAIN d.info

\* os.makedirs(<root>/<calculation_id>, exist_ok=True)
MakeCalculationFolder(d, calculation_id) ==
    [d EXCEPT !.exists = TRUE, !.folders = @ \cup {calculation_id}]

\* mutant: the loaded attributes are updated first, the arguments assigned after
CalculationInfoInit_ArgumentsWin(d, project_folder_path, calculation_id, calculation_type, calculation_parameters) ==
    LET d1 == MakeCalculationFolder(d, calculation_id) IN
    IF InfoExists(d1, calculation_id)
    THEN [disk |-> d1,
          info |-> [from_file(d1, calculation_id) EXCEPT
                      !.calculation_type = calculation_type,
                      !.calculation_parameters = calculation_parameters]]
    ELSE LET info == NewInfo(project_folder_path, calculation_id,
                             calculation_type, calculation_parameters)
         IN [disk |-> save_to_file(d1, info), info |-> info]

\* mutant: the test for an existing info.json is lost, the record is always new
CalculationInfoInit_AlwaysNew(d, project_folder_path, calculation_id, calculation_type, calculation_parameters) ==
    LET d1 == MakeCalculationFolder(d, calculation_id)
        info == NewInfo(project_folder_path, calculation_id,
                        calculation_type, calculation_parameters)
    IN [disk |-> save_to_file(d1, info), info |-> info]

\* CalculationInfo(...): the folder is made, then an existing info.json is
\* loaded in place of the arguments, else the new record is saved
CalculationInfoInit(d, project_folder_path, calculation_id, calculation_type, calculation_parameters) ==
    LET d1 == MakeCalculationFolder(d, calculation_id) IN
    IF InfoExists(d1, calculation_id)
    THEN [disk |-> d1, info |-> from_file(d1, calculation_id)]
    ELSE LET info == NewInfo(project_folder_path, calculation_id,
                             calculation_type, calculation_parameters)
         IN [disk |-> save_to_file(d1, info), info |-> info]

\* update_structure: structure.json beside info.json
update_structure(d, info, structure) ==
    [d EXCEPT !.structure = (PathId(info.structure_file_path) :> structure) @@ @]

-----------------------------------------------------------------------------
(* CalculationProject *)

IdsOf(info_list) == [i \in 1..Len(info_list) |-> info_list[i].calculation_id]

Unconstructed == [state |-> "unconstructed", info_list |-> <<>>]
Unset == [state |-> "None", info_list |-> <<>>]
Listed(info_list) == [state |-> "list", info_list |-> info_list]

NoIndex == [exists |-> FALSE, ids |-> <<>>]

\* mutant: the IDs of info_list missing from the index on disk are added to it
update_calculation_id_list_Merge(d, p) ==
    LET ids == IF p.state = "list" THEN IdsOf(p.info_list) ELSE <<>>
        missing == SelectSeq(ids, LAMBDA id :
                       \A k \in 1..Len(d.index.ids) : d.index.ids[k] # id)
    IN [d EXCEPT !.index = [exists |-> TRUE, ids |-> d.index.ids \o missing]]

\* update_calculation_id_list: the whole index file is rewritten
update_calculation_id_list(d, p) ==
    [d EXCEPT !.index = [exists |-> TRUE,
                         ids |-> IF p.state = "list" THEN IdsOf(p.info_list) ELSE <<>>]]

\* the listing of the project folder is not empty
RootNotEmpty(d) == d.folders # {} \/ d.index.exists \/ d.stray

\* mutant: an ID met a second time in the index is not loaded again
RECURSIVE LoadRecords(_, _)
LoadRecords_SkipRepeated(d, n) ==
    IF n = 0 THEN <<>>
    ELSE LET calculation_id == d.index.ids[n] IN
         IF /\ InfoExists(d, calculation_id)
            /\ \A k \in 1..(n - 1) : d.index.ids[k] # calculation_id
         THEN Append(LoadRecords(d, n - 1), from_file(d, calculation_id))
         ELSE LoadRecords(d, n - 1)

\* the records load() appends for the first n IDs of the index
LoadRecords(d, n) ==
    IF n = 0 THEN <<>>
    ELSE LET calculation_id == d.index.ids[n] IN
         IF InfoExists(d, calculation_id)
         THEN Append(LoadRecords(d, n - 1), from_file(d, calculation_id))
         ELSE LoadRecords(d, n - 1)

\* mutant: without an index file the history is the empty list
load_EmptyWithoutIndex(d) ==
    IF d.index.exists THEN Listed(LoadRecords(d, Len(d.index.ids))) ELSE Listed(<<>>)

\* load(): info_list from the index, None without an index file
load(d) ==
    IF d.index.exists THEN Listed(LoadRecords(d, Len(d.index.ids))) ELSE Unset

\* mutant: the index is rewritten before the new record joins info_list
add_new_IndexFirst(d, p, calculation_id, calculation_type, calculation_parameters) ==
    LET made == CalculationInfoInit(d, Root, calculation_id,
                                    calculation_type, calculation_parameters)
        p1 == Listed(Append(p.info_list, made.info))
        d2 == save_to_file(made.disk, made.info)
    IN [disk |-> update_calculation_id_list(d2, p), proj |-> p1, info |-> made.info]

\* add_new on project object p: [disk, proj, info]
add_new(d, p, calculation_id, calculation_type, calculation_parameters) ==
    LET made == CalculationInfoInit(d, Root, calculation_id,
                                    calculation_type, calculation_parameters)
        p1 == Listed(Append(p.info_list, made.info))
        d2 == save_to_file(made.disk, made.info)
    IN [disk |-> update_calculation_id_list(d2, p1), proj |-> p1, info |-> made.info]

\* mutant: the structure is not written into the initial record's folder
BootstrapResult_NoStructure(d, calculation_id, structure) ==
    LET made == CalculationInfoInit([d EXCEPT !.exists = TRUE], Root, calculation_id,
                                    "initial_structure", NoParams)
        p1 == Listed(<<made.info>>)
    IN [disk |-> update_calculation_id_list(made.disk, p1), proj |-> p1]

\* CalculationProject(project_folder_path, structure), the folder being empty
BootstrapResult(d, calculation_id, structure) ==
    LET made == CalculationInfoInit([d EXCEPT !.exists = TRUE], Root, calculation_id,
                                    "initial_structure", NoParams)
        d2 == update_structure(made.disk, made.info, structure)
        p1 == Listed(<<made.info>>)
    IN [disk |-> update_calculation_id_list(d2, p1), proj |-> p1]

\* mutant: only an earlier project (its index file) makes the folder count as used
BootstrapRefused_IndexOnly(d) == d.exists /\ d.index.exists

\* the guard of __init__: an existing, non-empty folder is refused
BootstrapRefused(d) == d.exists /\ RootNotEmpty(d)


\* mutant: the scan runs in insertion order and returns the first finished record
RECURSIVE ScanFinished(_, _)
ScanFinished_Forward(info_list, i) ==
    LET found == {k \in 1..i : info_list[k].calculation_status = "finished"} IN
    IF found = {} THEN 0 ELSE CHOOSE k \in found : \A m \in found : k <= m

\* latest_finished_calc: position of the last finished record, 0 for None
ScanFinished(info_list, i) ==
    IF i = 0 THEN 0
    ELSE IF info_list[i].calculation_status = "finished" THEN i
         ELSE ScanFinished(info_list, i - 1)

latest_finished_calc(p) ==
    IF p.state # "list" THEN 0 ELSE ScanFinished(p.info_list, Len(p.info_list))

\* mutant: the type test is lost, any finished record is taken
RECURSIVE ScanDos(_, _)
ScanDos_AnyType(info_list, i) ==
    IF i = 0 THEN 0
    ELSE IF info_list[i].calculation_status = "finished" THEN i
         ELSE ScanDos(info_list, i - 1)

\* latest_dos_calc: position of the last finished relax/ground_state, 0 for None
ScanDos(info_list, i) ==
    IF i = 0 THEN 0
    ELSE IF /\ (info_list[i].calculation_type = "relax"
                \/ info_list[i].calculation_type = "ground_state")
            /\ info_list[i].calculation_status = "finished"
         THEN i
         ELSE ScanDos(info_list, i - 1)

latest_dos_calc(p) ==
    IF p.state # "list" THEN 0 ELSE ScanDos(p.info_list, Len(p.info_list))

-----------------------------------------------------------------------------
(* Orchestrator *)

\* perform_calculation, the policy match: the branch on the calculation type
PolicyMatch(p, calculation_type) ==
    IF calculation_type = "relax" \/ calculation_type = "ground_state"
    THEN latest_finished_calc(p)
    ELSE latest_dos_calc(p)

\* mutant: the fallback takes the last record, info_list[-1]
SelectInput_FallbackLast(p, calculation_type) ==
    LET matched == (IF calculation_type = "relax" \/ calculation_type = "ground_state"
                    THEN latest_finished_calc(p) ELSE latest_dos_calc(p)) IN
    IF matched # 0 THEN [error |-> "none", matched |-> matched, input |-> matched]
    ELSE IF p.state # "list" THEN [error |-> "TypeError", matched |-> 0, input |-> 0]
    ELSE IF Len(p.info_list) = 0 THEN [error |-> "IndexError", matched |-> 0, input |-> 0]
    ELSE [error |-> "none", matched |-> 0, input |-> Len(p.info_list)]

\* perform_calculation, choice of input_info: the match, else info_list[0],
\* which raises on None (TypeError) and on the empty list (IndexError)
SelectInput(p, calculation_type) ==
    LET matched == PolicyMatch(p, calculation_type) IN
    IF matched # 0 THEN [error |-> "none", matched |-> matched, input |-> matched]
    ELSE IF p.state # "list" THEN [error |-> "TypeError", matched |-> 0, input |-> 0]
    ELSE IF Len(p.info_list) = 0 THEN [error |-> "IndexError", matched |-> 0, input |-> 0]
    ELSE [error |-> "none", matched |-> 0, input |-> 1]

\* perform_calculation_by_id: both records are read, the output is set finished
perform_calculation_by_id(d, input_calculation_id, output_calculation_id) ==
    IF ~InfoExists(d, input_calculation_id) \/ ~InfoExists(d, output_calculation_id)
    THEN [disk |-> d, error |-> "FileNotFoundError"]
    ELSE LET output_info == [from_file(d, output_calculation_id)
                                EXCEPT !.calculation_status = "finished"]
         IN [disk |-> save_to_file(d, output_info), error |-> "none"]

\* uuid4: an ID that no folder and no index entry carries.  All unused IDs
\* behave alike, so the first unused one of IdSeq stands for the draw.
IndexIds(d) == {d.index.ids[i] : i \in 1..Len(d.index.ids)}
UsedIds(d) == d.folders \cup IndexIds(d)
uuid4(d) ==
    {IdSeq[i] : i \in {j \in 1..Len(IdSeq) :
                         /\ IdSeq[j] \notin UsedIds(d)
                         /\ \A k \in 1..(j - 1) : IdSeq[k] \in UsedIds(d)}}

-----------------------------------------------------------------------------------------------------------------------------------------------------
(* State of the project model *)

CalculationTypes == {"relax", "ground_state", "band"}

KptsParams == Params("kpts" :> [t |-> "int", v |-> <<4>>])

\* the (calculation_type, calculation_parameters) pairs callers pass
Requests ==
    {<<"relax", KptsParams>>, <<"ground_state", NoParams>>, <<"band", NoParams>>}

\* the pairs passed to add_new on the caller's own project object
AddRequests == {<<"relax", KptsParams>>, <<"band", NoParams>>}

NoCall ==
    [op |-> "none", error |-> "none", calculation_type |-> "none",
     hist |-> Unconstructed, matched |-> 0, input |-> 0, output |-> "none",
     at |-> "none"]

\* info: info.json of each calculation folder; torn: the folders whose
\* info.json is being rewritten and does not parse; status: status.txt, as lines
EmptyDisk ==
    [exists |-> FALSE, stray |-> FALSE, folders |-> {}, info |-> <<>>, torn |-> {},
     structure |-> <<>>, status |-> <<>>, index |-> NoIndex]

NoInfo == NewInfo(Root, "none", "none", NoParams)
NotLoaded == [done |-> FALSE, info |-> NoInfo]

\* figure_str "absent": the result dict has no such key
NoResult == [calculation_status |-> "none", log |-> <<>>, figure_str |-> "absent"]
PollOff ==
    [pc |-> "off", start_time |-> 0, wake |-> 0, calculation_status |-> "none",
     status_file_content |-> <<>>, plot |-> "none", result |-> NoResult]
StreamOff ==
    [pc |-> "off", calculation_status |-> "none", observed |-> <<>>, emitted |-> <<>>]

\* the round-trip variables at rest
RecIdle == rec = NoInfo /\ loaded = NotLoaded

\* the processes that call perform_calculation on the one project folder
Procs == {1, 2}

OrchOff ==
    [pc |-> "off", calculation_type |-> "none", calculation_parameters |-> NoParams,
     output_calculation_id |-> "", calculation_record |-> Unconstructed,
     input |-> 0, new_info |-> NoInfo, error |-> "none", structure |-> "none"]

NoRead == [calculation_id |-> "none", calculation_status |-> "none", finished |-> {}]

\* no perform_calculation in steps and no reader
RaceIdle == orch = [p \in Procs |-> OrchOff] /\ reader = NoRead

\* no poll and no stream is running
WatchIdle == now = 0 /\ finishedAt = -1 /\ poll = PollOff /\ stream = StreamOff

\* the project folder is absent, empty, or holds a file of someone else
InitProject ==
    /\ disk \in {EmptyDisk,
                 [EmptyDisk EXCEPT !.exists = TRUE],
                 [EmptyDisk EXCEPT !.exists = TRUE, !.stray = TRUE]}
    /\ proj = Unconstructed
    /\ lastCall = NoCall
    /\ RaceIdle
    /\ sync = FALSE
    /\ RecIdle
    /\ WatchIdle

-----------------------------------------------------------------------------
(* Operations on the project *)

\* CalculationProject(project_folder_path, structure)
Bootstrap(structure) ==
    /\ UNCHANGED <<raceVars, recVars, watchVars>>
    /\ IF BootstrapRefused(disk)
       THEN /\ lastCall' = [NoCall EXCEPT !.op = "bootstrap", !.error = "ValueError"]
            /\ UNCHANGED <<disk, proj, sync>>
       ELSE \E calculation_id \in uuid4(disk) :
              LET made == BootstrapResult(disk, calculation_id, structure) IN
              /\ disk' = made.disk
              /\ proj' = made.proj
              /\ sync' = TRUE
              /\ lastCall' = [NoCall EXCEPT !.op = "bootstrap", !.output = calculation_id]

\* CalculationProject(project_folder_path)
Reload ==
    /\ proj' = load(disk)
    /\ lastCall' = [NoCall EXCEPT !.op = "load"]
    /\ UNCHANGED <<disk, sync>>
    /\ UNCHANGED <<raceVars, recVars, watchVars>>

\* proj.add_new(calculation_id, calculation_type, calculation_parameters)
AddNew(calculation_id, calculation_type, calculation_parameters) ==
    /\ proj.state # "unconstructed"
    /\ Len(proj.info_list) < MaxHist
    /\ LET added == add_new(disk, proj, calculation_id,
                            calculation_type, calculation_parameters) IN
       /\ disk' = added.disk
       /\ proj' = added.proj
       /\ lastCall' = [NoCall EXCEPT !.op = "add_new",
                                     !.calculation_type = calculation_type,
                                     !.output = calculation_id]
    /\ UNCHANGED sync
    /\ UNCHANGED <<raceVars, recVars, watchVars>>

Restrict(f, S) == [x \in DOMAIN f \cap S |-> f[x]]

\* remove_calculation_subfolder: the record's folder and all it holds go
RemoveCalculationSubfolder(calculation_id) ==
    /\ calculation_id \in disk.folders
    /\ LET keep == Ids \ {calculation_id} IN
       disk' = [disk EXCEPT !.folders = @ \cap keep,
                            !.info = Restrict(@, keep),
                            !.structure = Restrict(@, keep),
                            !.status = Restrict(@, keep)]
    /\ sync' = FALSE
    /\ lastCall' = [NoCall EXCEPT !.op = "remove_calculation_subfolder",
                                  !.output = calculation_id]
    /\ UNCHANGED proj
    /\ UNCHANGED <<raceVars, recVars, watchVars>>

NextProject ==
    \/ \E s \in Structures : Bootstrap(s)
    \/ Reload
    \/ \E id \in CallerIds, r \in AddRequests : AddNew(id, r[1], r[2])
    \/ \E id \in Ids : RemoveCalculationSubfolder(id)

\* a CalculationProject object through bootstrap, appends, reloads and
\* out-of-band folder removal
Spec == InitProject /\ [][NextProject]_vars

-----------------------------------------------------------------------------
(* The orchestrator on a project already on disk *)

\* the project bootstrap and then add_new leave on disk, one record for each
\* calculation type of types
RECURSIVE BuildProject(_)
BuildProject(types) ==
    IF Len(types) = 0
    THEN BootstrapResult(EmptyDisk, IdSeq[1], "Si")
    ELSE LET before == BuildProject(SubSeq(types, 1, Len(types) - 1))
             added == add_new(before.disk, before.proj, IdSeq[Len(types) + 1],
                              types[Len(types)], NoParams)
         IN [disk |-> added.disk, proj |-> added.proj]

TypeSeqs == UNION {[1..n -> CalculationTypes] : n \in 0..MaxInit}

\* no project yet, or a project of up to 1 + MaxInit records, all initialized
InitOrch ==
    /\ disk \in {EmptyDisk} \cup {BuildProject(ts).disk : ts \in TypeSeqs}
    /\ proj = Unconstructed
    /\ lastCall = NoCall
    /\ RaceIdle
    /\ sync = FALSE
    /\ RecIdle
    /\ WatchIdle

\* mutant: the new record is appended before the input is chosen
PerformCalculation_AppendFirst(calculation_type, calculation_parameters, output_calculation_id) ==
    LET calculation_record == load(disk)
        sel == SelectInput(calculation_record, calculation_type)
        call == [NoCall EXCEPT !.op = "perform_calculation",
                               !.calculation_type = calculation_type,
                               !.hist = calculation_record,
                               !.error = sel.error,
                               !.matched = sel.matched,
                               !.input = sel.input]
    IN
    /\ UNCHANGED <<raceVars, recVars, watchVars>>
    /\ UNCHANGED <<proj, sync>>
    /\ Len(calculation_record.info_list) <= 1 + MaxInit
    /\ \E new_id \in (IF output_calculation_id = "" THEN uuid4(disk)
                        ELSE {output_calculation_id}) :
         LET added == add_new(disk, calculation_record, new_id,
                              calculation_type, calculation_parameters)
         IN IF sel.error # "none"
            THEN /\ lastCall' = call
                 /\ disk' = added.disk
            ELSE LET input_info == calculation_record.info_list[sel.input]
                     done == perform_calculation_by_id(added.disk,
                                 input_info.calculation_id, new_id)
                 IN /\ disk' = done.disk
                    /\ lastCall' = [call EXCEPT !.output = new_id, !.error = done.error]

\* perform_calculation(calculation_type, calculation_parameters, project_folder_path,
\* output_calculation_id); output_calculation_id "" stands for None
PerformCalculation(calculation_type, calculation_parameters, output_calculation_id) ==
    LET calculation_record == load(disk)
        sel == SelectInput(calculation_record, calculation_type)
        call == [NoCall EXCEPT !.op = "perform_calculation",
                               !.calculation_type = calculation_type,
                               !.hist = calculation_record,
                               !.error = sel.error,
                               !.matched = sel.matched,
                               !.input = sel.input]
    IN
    /\ UNCHANGED <<raceVars, recVars, watchVars>>
    /\ UNCHANGED <<proj, sync>>
    /\ IF sel.error # "none"
       THEN /\ lastCall' = call
            /\ UNCHANGED disk
       ELSE /\ Len(calculation_record.info_list) <= 1 + MaxInit
            /\ \E new_id \in (IF output_calculation_id = "" THEN uuid4(disk)
                              ELSE {output_calculation_id}) :
                 LET added == add_new(disk, calculation_record, new_id,
                                      calculation_type, calculation_parameters)
                     input_info == calculation_record.info_list[sel.input]
                     done == perform_calculation_by_id(added.disk,
                                 input_info.calculation_id, new_id)
                 IN /\ disk' = done.disk
                    /\ lastCall' = [call EXCEPT !.output = new_id, !.error = done.error]

\* perform_calculation_by_id(input_calculation_id, output_calculation_id,
\* project_folder_path), called on its own
PerformCalculationById(input_calculation_id, output_calculation_id) ==
    LET done == perform_calculation_by_id(disk, input_calculation_id,
                                          output_calculation_id) IN
    /\ disk' = done.disk
    /\ lastCall' = [NoCall EXCEPT !.op = "perform_calculation_by_id",
                                  !.output = output_calculation_id,
                                  !.error = done.error]
    /\ UNCHANGED <<proj, sync>>
    /\ UNCHANGED <<raceVars, recVars, watchVars>>

\* the external backend writes a status into the record's info.json; it
\* never writes to a record that is finished or interrupted
BackendStatuses == {"running", "finished", "interrupted"}

\* the statuses after which the backend writes no more
TerminalStatuses == {"finished", "interrupted"}

BackendMayWrite(d, calculation_id, status) ==
    /\ InfoExists(d, calculation_id)
    /\ from_file(d, calculation_id).calculation_status \in {"initialized", "running"}
    /\ from_file(d, calculation_id).calculation_status # status

BackendWriteResult(d, calculation_id, status) ==
    [save_to_file(d, [from_file(d, calculation_id) EXCEPT !.calculation_status = status])
        EXCEPT !.torn = @ \ {calculation_id}]

BackendWrite(calculation_id, status) ==
    /\ BackendMayWrite(disk, calculation_id, status)
    /\ disk' = BackendWriteResult(disk, calculation_id, status)
    /\ lastCall' = [NoCall EXCEPT !.op = "backend"]
    /\ UNCHANGED <<proj, sync>>
    /\ UNCHANGED <<raceVars, recVars, watchVars>>

\* the IDs passed to perform_calculation_by_id called on its own
HandoffInputs == {"c1", "c3"}
HandoffOutputs == {"c1", "c2"}

NextOrch ==
    \/ \E r \in Requests, id \in {"c1", "c2", ""} : PerformCalculation(r[1], r[2], id)
    \/ \E input_id \in HandoffInputs, output_id \in HandoffOutputs :
          PerformCalculationById(input_id, output_id)
    \/ \E id \in Ids, s \in TerminalStatuses : BackendWrite(id, s)

SpecOrch == InitOrch /\ [][NextOrch]_vars

-----------------------------------------------------------------------------
(* The orchestrator on a project whose record folders are removed *)

\* no project folder, an empty one, or a project of one or two records
InitEmptied ==
    /\ disk \in {EmptyDisk, [EmptyDisk EXCEPT !.exists = TRUE],
                 BuildProject(<<>>).disk, BuildProject(<<"relax">>).disk}
    /\ proj = Unconstructed
    /\ lastCall = NoCall
    /\ RaceIdle
    /\ sync = FALSE
    /\ RecIdle
    /\ WatchIdle

NextEmptied ==
    \/ \E r \in AddRequests, id \in {"c2", ""} : PerformCalculation(r[1], r[2], id)
    \/ \E id \in Ids : RemoveCalculationSubfolder(id)
    \/ \E id \in Ids, s \in TerminalStatuses : BackendWrite(id, s)

SpecEmptied == InitEmptied /\ [][NextEmptied]_vars

\* C29: perform_calculation on a project whose reloaded history is unset or
\* empty raises before any append: no folder and no file is created and the
\* index is neither created nor changed.
C29_NoHistoryRaisesBeforeAppend ==
    [][(/\ lastCall'.op = "perform_calculation"
        /\ (lastCall'.hist.state # "list" \/ Len(lastCall'.hist.info_list) = 0)) =>
          /\ lastCall'.error \in {"TypeError", "IndexError"}
          /\ lastCall'.output = "none"
          /\ disk' = disk]_vars

\* every listed record's folder was removed: the index lists two IDs, the
\* reloaded history is the empty list, and perform_calculation raised
C29_Witness ==
    /\ lastCall.op = "perform_calculation"
    /\ lastCall.error = "IndexError"
    /\ lastCall.hist = Listed(<<>>)
    /\ Len(disk.index.ids) = 2
    /\ disk.folders = {}

-----------------------------------------------------------------------------
(* The constructor of CalculationInfo on a project already on disk *)

\* CalculationInfo(project_folder_path, calculation_id, calculation_type,
\* calculation_parameters); the object it builds is kept in loaded
Create(calculation_id, calculation_type, calculation_parameters) ==
    LET made == CalculationInfoInit(disk, Root, calculation_id,
                                    calculation_type, calculation_parameters) IN
    /\ disk' = made.disk
    /\ loaded' = [done |-> TRUE, info |-> made.info]
    /\ lastCall' = [NoCall EXCEPT !.op = "CalculationInfo",
                                  !.calculation_type = calculation_type,
                                  !.output = calculation_id]
    /\ UNCHANGED <<raceVars, proj, sync, rec, watchVars>>

NextCreate ==
    \/ \E id \in CallerIds, r \in AddRequests : Create(id, r[1], r[2])
    \/ \E id \in Ids, s \in TerminalStatuses : BackendWrite(id, s)

SpecCreate == InitOrch /\ [][NextCreate]_vars

\* C14: CalculationInfo(...) on a (project folder, calculation ID) whose
\* info.json exists gives the persisted record, with the stored type,
\* parameters and status whatever type and parameters are passed, and
\* leaves every info.json as it was.
C14_ExistingRecordReopened ==
    [][\A id \in CallerIds, r \in AddRequests :
          (Create(id, r[1], r[2]) /\ InfoExists(disk, id)) =>
              /\ loaded'.info = from_file(disk, id)
              /\ disk'.info = disk.info]_vars

\* a finished ground_state record without parameters was re-opened with type
\* relax and parameters
C14_Witness ==
    /\ lastCall.op = "CalculationInfo"
    /\ lastCall.calculation_type = "relax"
    /\ loaded.done
    /\ loaded.info.calculation_id = lastCall.output
    /\ loaded.info.calculation_type = "ground_state"
    /\ loaded.info.calculation_parameters = NoParams
    /\ loaded.info.calculation_status = "finished"

-----------------------------------------------------------------------------
(* Records of a project folder that was written under another path *)

\* the path the project folder had when its records were written
OldRoot == <<"work", "old">>

\* the six artifact paths a record object carries
PathsOf(info) ==
    <<info.info_file_path, info.structure_file_path, info.status_file_path,
      info.trajectory_file_path, info.log_file_path, info.ckpt_file_path>>

\* the files of project d as the constructor writes them when it is given
\* project_folder_path = root: the path attributes are part of info.json
WrittenUnder(root, d) ==
    [d EXCEPT !.info =
        [id \in DOMAIN d.info |->
            LET i == d.info[id]
                n == NewInfo(root, id, i.calculation_type, i.calculation_parameters)
            IN [n EXCEPT !.calculation_status = i.calculation_status]]]

\* the project folder at Root, written there or written at OldRoot and moved
InitPaths ==
    /\ disk \in {WrittenUnder(root, BuildProject(ts).disk) :
                     root \in {Root, OldRoot}, ts \in {<<>>, <<"relax">>}}
    /\ proj = Unconstructed
    /\ lastCall = NoCall
    /\ RaceIdle
    /\ sync = FALSE
    /\ RecIdle
    /\ WatchIdle

\* CalculationInfo.from_file(<Root>/<calculation_id>/info.json)
OpenRecord(calculation_id) ==
    /\ InfoExists(disk, calculation_id)
    /\ loaded' = [done |-> TRUE, info |-> from_file(disk, calculation_id)]
    /\ lastCall' = [NoCall EXCEPT !.op = "from_file", !.output = calculation_id]
    /\ UNCHANGED <<raceVars, disk, proj, sync, rec, watchVars>>

NextPaths ==
    \/ \E id \in Ids : OpenRecord(id)
    \/ \E id \in CallerIds, r \in AddRequests : Create(id, r[1], r[2])
    \/ Reload

SpecPaths == InitPaths /\ [][NextPaths]_vars

\* C23: a record opened at <Root>/<calculation_id>, by from_file, by the
\* constructor or by the project's load, carries the six artifact paths
\* derived from (Root, calculation_id), never paths taken from info.json.
C23_PathsDerivedFromLocation ==
    /\ (loaded.done /\ lastCall.op \in {"from_file", "CalculationInfo"}) =>
           PathsOf(loaded.info) = PathsOf(NewInfo(Root, lastCall.output, "none", NoParams))
    /\ proj.state = "list" =>
           \A i \in 1..Len(proj.info_list) :
               PathsOf(proj.info_list[i]) =
                   PathsOf(NewInfo(Root, proj.info_list[i].calculation_id, "none", NoParams))

-----------------------------------------------------------------------------
(* Properties of the project history *)

\* C1: when add_new returns, calculation_id_list.json holds exactly the
\* calculation IDs of info_list, in insertion order.
C1_IndexMirrorsRecords ==
    lastCall.op = "add_new" =>
        /\ disk.index.exists
        /\ disk.index.ids = IdsOf(proj.info_list)

\* add_new has returned on a history of three records, IDs not in IdSeq order
C1_Witness ==
    /\ lastCall.op = "add_new"
    /\ IdsOf(proj.info_list) = <<"c1", "c3", "c2">>

\* C2: after bootstrap and completed appends by one history object, with no
\* out-of-band folder removal, reloading the project from disk gives records
\* whose calculation IDs, in order, are those of the in-memory history.
C2_ReloadSameOrder ==
    sync =>
        /\ load(disk).state = "list"
        /\ IdsOf(load(disk).info_list) = IdsOf(proj.info_list)

\* three records after bootstrap and two appends, one of them re-using an ID
C2_Witness ==
    /\ sync
    /\ lastCall.op = "add_new"
    /\ IdsOf(proj.info_list) = <<"c1", "c2", "c1">>

\* C9: bootstrap on a project folder that exists and is not empty fails with
\* ValueError and leaves everything under the folder as it was.
C9_BootstrapRefusedNoEffect ==
    [][\A s \in Structures :
          (disk.exists /\ RootNotEmpty(disk) /\ Bootstrap(s)) =>
              (lastCall'.error = "ValueError" /\ disk' = disk /\ proj' = proj)]_vars

\* a bootstrap was refused on a folder that holds only a foreign file
C9_Witness ==
    /\ lastCall.op = "bootstrap"
    /\ lastCall.error = "ValueError"
    /\ disk.stray
    /\ ~disk.index.exists

Distinct(ids) == \A i, j \in 1..Len(ids) : i # j => ids[i] # ids[j]

\* C13: the calculation IDs of the records sequence, and those of the
\* persisted index, are pairwise distinct in every reachable state.
C13_IdsDistinct ==
    /\ Distinct(IdsOf(proj.info_list))
    /\ Distinct(disk.index.ids)

\* C24: a bootstrap on an absent or empty project folder leaves a history of
\* exactly one record, of type initial_structure and status initialized; the
\* structure is written in that record's folder and the index is the
\* one-element list of that record's ID.
C24_BootstrapOneInitialRecord ==
    [][\A s \in Structures :
          (Bootstrap(s) /\ ~BootstrapRefused(disk)) =>
              /\ proj'.state = "list"
              /\ Len(proj'.info_list) = 1
              /\ LET info == proj'.info_list[1] IN
                 /\ info.calculation_type = "initial_structure"
                 /\ info.calculation_status = "initialized"
                 /\ info.calculation_id = lastCall'.output
                 /\ InfoExists(disk', info.calculation_id)
                 /\ from_file(disk', info.calculation_id) = info
                 /\ info.calculation_id \in DOMAIN disk'.structure
                 /\ disk'.structure[info.calculation_id] = s
                 /\ disk'.index = [exists |-> TRUE, ids |-> <<info.calculation_id>>]]_vars

\* a bootstrap with structure GaAs has succeeded on a folder that did not exist
C24_Witness ==
    /\ lastCall.op = "bootstrap"
    /\ lastCall.error = "none"
    /\ disk.structure = (lastCall.output :> "GaAs")
    /\ disk.index.ids = <<lastCall.output>>
    /\ ~disk.stray

\* the listed IDs whose calculation folder is on disk, in index order
ListedOnDisk(d) == SelectSeq(d.index.ids, LAMBDA id : id \in d.folders)

\* C22: reload gives, in index order, the record of every listed ID whose
\* folder is on disk and skips the listed IDs whose folder is missing,
\* raising nothing; without an index file it raises nothing and leaves the
\* history unset.
C22_ReloadSkipsMissing ==
    lastCall.op = "load" =>
        /\ lastCall.error = "none"
        /\ IF disk.index.exists
           THEN /\ proj.state = "list"
                /\ IdsOf(proj.info_list) = ListedOnDisk(disk)
                /\ \A i \in 1..Len(proj.info_list) :
                      proj.info_list[i] = from_file(disk, proj.info_list[i].calculation_id)
           ELSE proj = Unset

\* the index lists three IDs, the folder of the second one was removed, and
\* the reload gave the first and the third record
C22_Witness ==
    /\ lastCall.op = "load"
    /\ Len(disk.index.ids) = 3
    /\ disk.index.ids[2] \notin disk.folders
    /\ IdsOf(proj.info_list) = <<disk.index.ids[1], disk.index.ids[3]>>

-----------------------------------------------------------------------------
(* Properties of input selection *)

FinishedAt(h, i) == h[i].calculation_status = "finished"
DosAt(h, i) == h[i].calculation_type \in {"relax", "ground_state"}

Selecting(types) ==
    /\ lastCall.op = "perform_calculation"
    /\ lastCall.calculation_type \in types

\* C3: for relax and ground_state the input is the most recently inserted
\* finished record, of any type; no later record is finished.
C3_LatestFinished ==
    Selecting({"relax", "ground_state"}) =>
        LET h == lastCall.hist.info_list IN
        IF \E i \in 1..Len(h) : FinishedAt(h, i)
        THEN /\ lastCall.input \in 1..Len(h)
             /\ lastCall.matched = lastCall.input
             /\ FinishedAt(h, lastCall.input)
             /\ \A j \in (lastCall.input + 1)..Len(h) : ~FinishedAt(h, j)
        ELSE lastCall.matched = 0

\* select_input("relax") on [initial(finished), A(ground_state, finished),
\* B(relax, initialized)] has returned A
C3_Witness ==
    /\ Selecting({"relax"})
    /\ LET h == lastCall.hist.info_list IN
       /\ Len(h) = 3
       /\ h[1].calculation_type = "initial_structure" /\ FinishedAt(h, 1)
       /\ h[2].calculation_type = "ground_state" /\ FinishedAt(h, 2)
       /\ h[3].calculation_type = "relax" /\ h[3].calculation_status = "initialized"
    /\ lastCall.input = 2

\* C4: for every other calculation type the input is the most recently
\* inserted record that is finished and of type relax or ground_state; the
\* match is never a finished record of another type nor an unfinished one.
C4_LatestFinishedDos ==
    (/\ lastCall.op = "perform_calculation"
     /\ lastCall.calculation_type \notin {"relax", "ground_state"}) =>
        LET h == lastCall.hist.info_list IN
        IF \E i \in 1..Len(h) : FinishedAt(h, i) /\ DosAt(h, i)
        THEN /\ lastCall.input \in 1..Len(h)
             /\ lastCall.matched = lastCall.input
             /\ FinishedAt(h, lastCall.input) /\ DosAt(h, lastCall.input)
             /\ \A j \in (lastCall.input + 1)..Len(h) : ~(FinishedAt(h, j) /\ DosAt(h, j))
        ELSE lastCall.matched = 0

\* select_input("band") passed over a later finished band record and returned
\* the finished ground_state record
C4_Witness ==
    /\ Selecting({"band"})
    /\ LET h == lastCall.hist.info_list IN
       /\ Len(h) = 3
       /\ h[1].calculation_type = "initial_structure" /\ FinishedAt(h, 1)
       /\ h[2].calculation_type = "ground_state" /\ FinishedAt(h, 2)
       /\ h[3].calculation_type = "band" /\ FinishedAt(h, 3)
    /\ lastCall.input = 2

\* C5 as stated: when no record matches the policy, the input is the first
\* record of the history, for every history and every calculation type.
C5_FallbackAlways ==
    (lastCall.op = "perform_calculation" /\ lastCall.matched = 0) =>
        /\ lastCall.error = "none"
        /\ lastCall.input = 1
        /\ Len(lastCall.hist.info_list) >= 1

\* C5 amended: when no record matches the policy and the history holds at
\* least one record, the input is the first record of the history; on a
\* history that is unset or empty the selection raises and no input is chosen.
C5_FallbackFirstRecord ==
    (lastCall.op = "perform_calculation" /\ lastCall.matched = 0) =>
        IF lastCall.hist.state = "list" /\ Len(lastCall.hist.info_list) >= 1
        THEN lastCall.input = 1 /\ lastCall.error = "none"
        ELSE lastCall.input = 0 /\ lastCall.error \in {"TypeError", "IndexError"}

\* no finished relax/ground_state in a history of three records, "band" asked
C5_Witness ==
    /\ Selecting({"band"})
    /\ lastCall.matched = 0
    /\ lastCall.input = 1
    /\ Len(lastCall.hist.info_list) = 3
    /\ FinishedAt(lastCall.hist.info_list, 3)

-----------------------------------------------------------------------------
(* Round trip of one CalculationInfo through its info.json *)

ScalarTypes == {"bool", "int", "float", "str", "np.bool_", "np.integer", "np.floating"}
SequenceTypes == {"list", "tuple", "ndarray"}

\* the values a calculation_parameters entry holds
PyValues ==
    {PyNone}
    \cup {[t |-> ty, v |-> <<n>>] : ty \in ScalarTypes, n \in {0, 1}}
    \cup {[t |-> ty, v |-> s] : ty \in SequenceTypes, s \in {<<>>, <<1, 2>>}}

ParamKeys == {"kpts", "ecut"}

ParamDicts == UNION {[ks -> PyValues] : ks \in SUBSET ParamKeys}

Statuses == {"initialized", "running", "finished", "interrupted"}

\* a CalculationInfo as __init__ builds it, then given a status
RecordsToSave ==
    {[NewInfo(Root, "c1", ty, ps) EXCEPT !.calculation_status = st] :
        ty \in {"initial_structure", "relax"},
        ps \in {NoParams} \cup {Params(items) : items \in ParamDicts},
        st \in Statuses}

InitRecord ==
    /\ rec \in RecordsToSave
    /\ loaded = NotLoaded
    /\ disk = MakeCalculationFolder(EmptyDisk, "c1")
    /\ proj = Unconstructed
    /\ lastCall = NoCall
    /\ RaceIdle
    /\ sync = FALSE
    /\ WatchIdle

\* rec.save_to_file()
Save ==
    /\ ~InfoExists(disk, rec.calculation_id)
    /\ disk' = save_to_file(disk, rec)
    /\ lastCall' = [NoCall EXCEPT !.op = "save_to_file"]
    /\ UNCHANGED <<raceVars, proj, sync, rec, loaded, watchVars>>

\* CalculationInfo.from_file(rec.info_file_path)
Load ==
    /\ InfoExists(disk, PathId(rec.info_file_path))
    /\ ~loaded.done
    /\ loaded' = [done |-> TRUE, info |-> from_file(disk, PathId(rec.info_file_path))]
    /\ lastCall' = [NoCall EXCEPT !.op = "from_file"]
    /\ UNCHANGED <<raceVars, disk, proj, sync, rec, watchVars>>

NextRecord == Save \/ Load

SpecRecord == InitRecord /\ [][NextRecord]_vars

\* the values json has a kind for and reads back as the same Python type
JsonNative(value) == value.t \in {"NoneType", "bool", "int", "float", "str", "list"}

AllNative(info) ==
    \A k \in DOMAIN info.calculation_parameters.items :
        JsonNative(info.calculation_parameters.items[k])

\* the native type a value comes back as
NativeType(t) ==
    CASE t = "np.bool_"    -> "bool"
      [] t = "np.integer"  -> "int"
      [] t = "np.floating" -> "float"
      [] t \in {"ndarray", "tuple"} -> "list"
      [] OTHER -> t

\* C10 as stated: the record loaded after save equals the saved record field
\* for field.
C10_RoundTripEqual ==
    loaded.done => loaded.info = rec

\* C10 amended: the record loaded after save has the saved record's fields
\* with every numpy scalar, numpy array and tuple among the parameters
\* replaced by the native value of the same content; it equals the saved
\* record field for field when the parameters hold native values only.
C10_RoundTripNormalized ==
    loaded.done =>
        /\ \A f \in DOMAIN rec \ {"calculation_parameters"} : loaded.info[f] = rec[f]
        /\ LET saved == rec.calculation_parameters
               back == loaded.info.calculation_parameters
           IN /\ back.isNone = saved.isNone
              /\ DOMAIN back.items = DOMAIN saved.items
              /\ \A k \in DOMAIN saved.items :
                    /\ back.items[k].v = saved.items[k].v
                    /\ back.items[k].t = NativeType(saved.items[k].t)
        /\ AllNative(rec) => loaded.info = rec

\* a finished record with an array and a numpy float among its parameters
\* has been saved and loaded
C10_Witness ==
    /\ loaded.done
    /\ rec.calculation_status = "finished"
    /\ rec.calculation_parameters.items =
          ("kpts" :> [t |-> "ndarray", v |-> <<1, 2>>]
           @@ "ecut" :> [t |-> "np.floating", v |-> <<1>>])
    /\ loaded.info.calculation_parameters.items["kpts"].t = "list"

-----------------------------------------------------------------------------
(* Watching one record: check_calculation_result and stream_calculation_log *)

\* the record that is polled or streamed
Target == IdSeq[2]

\* time.sleep(5) of the poll loop
POLL_INTERVAL == 5

\* the maximum computation time, in seconds
MAX_COMPUTATION_TIME == 3600

\* lines the backend writes to status.txt
MaxLog == 1

\* ticks of a stream the model follows
MaxTicks == 3

TimeoutNotice == "Calculation exceeded maximum computation time"

\* status_file_content(): the lines of status.txt, "" without the file
status_file_content(d, info) ==
    LET calculation_id == PathId(info.status_file_path) IN
    IF calculation_id \in DOMAIN d.status THEN d.status[calculation_id] ELSE <<>>

\* the try block of both loops: the record and its status file are read; a
\* missing or unparsable info.json gives "status inaccessible" and str(e)
ReadRecord(d, calculation_id) ==
    IF ~InfoExists(d, calculation_id)
    THEN [failed |-> TRUE, calculation_status |-> "status inaccessible",
          status_file_content |-> <<"FileNotFoundError">>]
    ELSE IF calculation_id \in d.torn
    THEN [failed |-> TRUE, calculation_status |-> "status inaccessible",
          status_file_content |-> <<"JSONDecodeError">>]
    ELSE LET calculation_info == from_file(d, calculation_id) IN
         [failed |-> FALSE,
          calculation_status |-> calculation_info.calculation_status,
          status_file_content |-> status_file_content(d, calculation_info)]

\* mutant: the budget counts as exceeded when the elapsed time reaches it
TimedOut_AtLimit(elapsed) == elapsed >= MAX_COMPUTATION_TIME

\* time.time() - start_time > MAX_COMPUTATION_TIME
TimedOut(elapsed) == elapsed > MAX_COMPUTATION_TIME

\* mutant: interrupted ends the loop like finished
PollDecide_EndsOnTerminal(calculation_status, elapsed) ==
    IF calculation_status = "finished" \/ calculation_status = "interrupted"
    THEN "finished"
    ELSE IF TimedOut(elapsed) THEN "timeout"
    ELSE "sleep"

\* mutant: the except clause leaves the loop, the failed read is returned
PollDecide_FailureEnds(calculation_status, elapsed) ==
    IF calculation_status = "finished" \/ calculation_status = "status inaccessible"
    THEN "finished"
    ELSE IF TimedOut(elapsed) THEN "timeout"
    ELSE "sleep"

\* mutant: interrupted is reported as a timeout at once
PollDecide_InterruptedTimesOut(calculation_status, elapsed) ==
    IF calculation_status = "finished" THEN "finished"
    ELSE IF TimedOut(elapsed) \/ calculation_status = "interrupted" THEN "timeout"
    ELSE "sleep"

\* mutant: the time budget is tested before the status
PollDecide_TimeoutFirst(calculation_status, elapsed) ==
    IF TimedOut(elapsed) THEN "timeout"
    ELSE IF calculation_status = "finished" THEN "finished"
    ELSE "sleep"

\* one iteration of check_calculation_result after the read: finished ends
\* the loop, else an exceeded budget ends it, else the loop sleeps
PollDecide(calculation_status, elapsed) ==
    IF calculation_status = "finished" THEN "finished"
    ELSE IF TimedOut(elapsed) THEN "timeout"
    ELSE "sleep"

\* what plot_output() and pio.to_json do: nothing to draw, a figure, or an
\* exception of the rendering
PlotOutcomes == {"None", "figure", "raises"}

\* mutant: the exception of the rendering is not caught
AttachFigure_Propagates(result, plot) ==
    CASE plot = "figure" -> [result EXCEPT !.figure_str = "fig"]
      [] plot = "raises" -> [result EXCEPT !.calculation_status = "Exception"]
      [] OTHER -> result

\* the inner try of the finished branch: figure_str is set when a figure was
\* drawn and serialised; an exception is printed and dropped
AttachFigure(result, plot) ==
    CASE plot = "figure" -> [result EXCEPT !.figure_str = "fig"]
      [] plot = "raises" -> result
      [] OTHER -> result

\* mutant: a failed load ends the stream like a terminal status
StreamEnds_OnFailure(calculation_status) ==
    calculation_status \in {"finished", "interrupted", "status inaccessible"}

\* the break of stream_calculation_log
StreamEnds(calculation_status) ==
    calculation_status = "finished" \/ calculation_status = "interrupted"

\* mutant: the yield stands after the break
StreamEmit_AfterBreak(emitted, read) ==
    IF read.failed \/ StreamEnds(read.calculation_status) THEN emitted
    ELSE Append(emitted, read.status_file_content)

\* the yield of stream_calculation_log: it is reached when the reads succeeded
StreamEmit(emitted, read) ==
    IF read.failed THEN emitted
    ELSE Append(emitted, read.status_file_content)

\* a poll or a stream is in progress
Watching == poll.pc = "polling" \/ stream.pc = "running"

\* a project of two records; the second one is absent, or has any status
WatchDisks ==
    {BuildProject(<<>>).disk, BuildProject(<<"relax">>).disk}
    \cup {BackendWriteResult(BuildProject(<<"relax">>).disk, Target, st) :
             st \in BackendStatuses}

InitWatch ==
    /\ disk \in WatchDisks
    /\ now = 0
    /\ finishedAt = (IF /\ InfoExists(disk, Target)
                        /\ from_file(disk, Target).calculation_status = "finished"
                     THEN 0 ELSE -1)
    /\ proj = Unconstructed
    /\ lastCall = NoCall
    /\ RaceIdle
    /\ sync = FALSE
    /\ RecIdle

\* the backend completes a write of the record's status
BackendSetsStatus(status) ==
    /\ Watching
    /\ BackendMayWrite(disk, Target, status)
    /\ disk' = BackendWriteResult(disk, Target, status)
    /\ finishedAt' = (IF status = "finished" THEN now ELSE finishedAt)
    /\ UNCHANGED <<raceVars, proj, lastCall, sync, recVars, now, poll, stream>>

\* the backend has opened info.json for writing: until the write completes
\* the file does not parse
BackendTruncates ==
    /\ Watching
    /\ \E status \in BackendStatuses : BackendMayWrite(disk, Target, status)
    /\ Target \notin disk.torn
    /\ disk' = [disk EXCEPT !.torn = @ \cup {Target}]
    /\ UNCHANGED <<raceVars, proj, lastCall, sync, recVars, watchVars>>

\* the backend appends a line to status.txt of a record it still works on
BackendLogs ==
    /\ Watching
    /\ \E status \in BackendStatuses : BackendMayWrite(disk, Target, status)
    /\ LET lines == IF Target \in DOMAIN disk.status THEN disk.status[Target] ELSE <<>> IN
       /\ Len(lines) < MaxLog
       /\ disk' = [disk EXCEPT !.status = (Target :> Append(lines, "step")) @@ @]
    /\ UNCHANGED <<raceVars, proj, lastCall, sync, recVars, watchVars>>

-----------------------------------------------------------------------------
(* check_calculation_result *)

InitPoller ==
    /\ InitWatch
    /\ poll = [PollOff EXCEPT !.pc = "polling"]
    /\ stream = StreamOff

\* one pass of the while loop: read, decide, and either return or sleep.
\* The locals calculation_status and status_file_content are overwritten by
\* the next read before any use, so poll keeps them from the last pass only.
PollIteration ==
    /\ poll.pc = "polling"
    /\ now = poll.wake
    /\ LET read == ReadRecord(disk, Target)
           seen == [poll EXCEPT !.calculation_status = read.calculation_status,
                                !.status_file_content = read.status_file_content]
           verdict == PollDecide(read.calculation_status, now - poll.start_time)
       IN CASE verdict = "finished" ->
                 \E plot \in PlotOutcomes :
                   poll' = [seen EXCEPT
                              !.pc = "done",
                              !.plot = plot,
                              !.result = AttachFigure(
                                  [NoResult EXCEPT
                                      !.calculation_status = read.calculation_status,
                                      !.log = read.status_file_content], plot)]
            [] verdict = "timeout" ->
                 poll' = [seen EXCEPT
                            !.pc = "done",
                            !.result = [NoResult EXCEPT
                                          !.calculation_status = "timeout",
                                          !.log = read.status_file_content
                                                  \o <<TimeoutNotice>>]]
            [] OTHER -> poll' = [poll EXCEPT !.wake = now + POLL_INTERVAL]
    /\ UNCHANGED <<raceVars, disk, proj, lastCall, sync, recVars, now, finishedAt, stream>>

\* a second passes; the sleeping loop wakes when its interval is over
Tick ==
    /\ poll.pc = "polling"
    /\ now < poll.wake
    /\ now' = now + 1
    /\ UNCHANGED <<raceVars, disk, proj, lastCall, sync, recVars, finishedAt, poll, stream>>

NextPoller ==
    \/ PollIteration
    \/ Tick
    \/ \E status \in BackendStatuses : BackendSetsStatus(status)
    \/ BackendTruncates
    \/ BackendLogs

SpecPoller == InitPoller /\ [][NextPoller]_vars

\* time passes and the loop runs
SpecPollerFair == SpecPoller /\ WF_vars(Tick) /\ WF_vars(PollIteration)

-----------------------------------------------------------------------------
(* stream_calculation_log *)

InitStream ==
    /\ InitWatch
    /\ poll = PollOff
    /\ stream = [StreamOff EXCEPT !.pc = "running"]

\* one pass of the while loop: read, yield on success, break on a terminal status
StreamTick ==
    /\ stream.pc = "running"
    /\ Len(stream.observed) < MaxTicks
    /\ LET read == ReadRecord(disk, Target) IN
       stream' = [pc |-> IF StreamEnds(read.calculation_status) THEN "ended" ELSE "running",
                  calculation_status |-> read.calculation_status,
                  observed |-> Append(stream.observed, read.calculation_status),
                  emitted |-> StreamEmit(stream.emitted, read)]
    /\ UNCHANGED <<raceVars, disk, proj, lastCall, sync, recVars, now, finishedAt, poll>>

NextStream ==
    \/ StreamTick
    \/ \E status \in BackendStatuses : BackendSetsStatus(status)
    \/ BackendTruncates
    \/ BackendLogs

SpecStream == InitStream /\ [][NextStream]_vars

-----------------------------------------------------------------------------
(* Properties of the poller and the streamer *)

\* C6: while a poll is in progress, once the record's persisted status is
\* finished the poll returns finished, with the status-file content as log,
\* no later than one polling interval afterwards.
C6_FinishedWithinInterval ==
    finishedAt >= 0 =>
        /\ poll.pc = "polling" => now - finishedAt <= POLL_INTERVAL
        /\ poll.pc = "done" =>
              /\ poll.result.calculation_status = "finished"
              /\ poll.result.log = status_file_content(disk, from_file(disk, Target))
              /\ now - finishedAt <= POLL_INTERVAL

\* the record became finished after the budget was spent, just after a read,
\* and the poll returned finished with a non-empty log one interval later
C6_Witness ==
    /\ poll.pc = "done"
    /\ poll.result.calculation_status = "finished"
    /\ poll.result.log = <<"step">>
    /\ finishedAt = MAX_COMPUTATION_TIME
    /\ now = finishedAt + POLL_INTERVAL

C7_Safety ==
    /\ poll.pc = "polling" =>
          now - poll.start_time <= MAX_COMPUTATION_TIME + POLL_INTERVAL
    /\ (poll.pc = "done" /\ finishedAt = -1) =>
          poll.result.calculation_status = "timeout"
    /\ (poll.pc = "done" /\ poll.result.calculation_status = "timeout") =>
          /\ now - poll.start_time > MAX_COMPUTATION_TIME
          /\ now - poll.start_time - POLL_INTERVAL <= MAX_COMPUTATION_TIME
          /\ poll.result.log =
                ReadRecord(disk, Target).status_file_content \o <<TimeoutNotice>>

\* C7: a poll of a record that never becomes finished terminates: it returns
\* timeout at the first iteration at which the elapsed time exceeds the
\* maximum, no later than the maximum plus one polling interval, and its log
\* is the last log text followed by the exceeded-time notice.
C7_TimeoutTerminates ==
    /\ []C7_Safety
    /\ <>(poll.pc = "done")

\* an interrupted record was polled until the timeout, its log kept
C7_Witness ==
    /\ poll.pc = "done"
    /\ poll.result.calculation_status = "timeout"
    /\ poll.calculation_status = "interrupted"
    /\ poll.result.log = <<"step", TimeoutNotice>>

\* C8: the stream ends exactly when it observes finished or interrupted: not
\* while it observes initialized or running, and not on a failed load.
C8_StreamEndsOnTerminal ==
    stream.pc \in {"running", "ended"} =>
        LET n == Len(stream.observed) IN
        /\ stream.pc = "ended" <=>
              (n > 0 /\ stream.observed[n] \in {"finished", "interrupted"})
        /\ \A i \in 1..(n - 1) : stream.observed[i] \notin {"finished", "interrupted"}

\* the stream went on after a running tick and after a failed load, and ended
\* once interrupted was read
C8_Witness ==
    /\ stream.pc = "ended"
    /\ stream.observed = <<"running", "status inaccessible", "interrupted">>

\* C15: check_calculation_result is polling until it returns, and every
\* return carries calculation_status finished or timeout: never status
\* inaccessible, initialized, running or interrupted.
C15_ReturnsFinishedOrTimeout ==
    /\ poll.pc \in {"polling", "done"}
    /\ poll.pc = "polling" => poll.result = NoResult
    /\ poll.pc = "done" => poll.result.calculation_status \in {"finished", "timeout"}

\* the poll returned timeout although the last status it read was interrupted
C15_Witness ==
    /\ poll.pc = "done"
    /\ poll.calculation_status = "interrupted"
    /\ poll.result.calculation_status = "timeout"

\* C16: an iteration whose read of the record fails raises nothing and does
\* not end the loop by itself: within the budget the loop sleeps and reads
\* again, and once the budget is exceeded it returns timeout with the raw
\* error text as the log before the notice.
C16_ReadFailureIsTransient ==
    [][(PollIteration /\ ReadRecord(disk, Target).failed) =>
          IF TimedOut(now - poll.start_time)
          THEN /\ poll'.pc = "done"
               /\ poll'.calculation_status = "status inaccessible"
               /\ poll'.result =
                     [calculation_status |-> "timeout",
                      log |-> ReadRecord(disk, Target).status_file_content
                              \o <<TimeoutNotice>>,
                      figure_str |-> "absent"]
          ELSE /\ poll'.pc = "polling"
               /\ poll'.wake = now + POLL_INTERVAL
               /\ poll'.result = NoResult]_vars

\* info.json did not parse at the last read, and the poll went on to the
\* timeout with the error text as log
C16_Witness ==
    /\ poll.pc = "done"
    /\ poll.calculation_status = "status inaccessible"
    /\ poll.result.log = <<"JSONDecodeError", TimeoutNotice>>

C18_OneItemPerTick ==
    stream.pc \in {"running", "ended"} =>
        Len(stream.emitted) = Len(stream.observed)

\* C27: a record read as interrupted never makes the poll return early: the
\* pass sleeps like on a non-terminal status, and only when the budget is
\* exceeded does it return, with timeout.
C27_InterruptedPolledToTimeout ==
    [][(PollIteration /\ ReadRecord(disk, Target).calculation_status = "interrupted") =>
          IF TimedOut(now - poll.start_time)
          THEN /\ poll'.pc = "done"
               /\ poll'.result.calculation_status = "timeout"
          ELSE /\ poll'.pc = "polling"
               /\ poll'.wake = now + POLL_INTERVAL
               /\ poll'.result = NoResult]_vars

\* a record without status file, interrupted, was polled for the whole
\* budget and reported as timeout
C27_Witness ==
    /\ poll.pc = "done"
    /\ poll.calculation_status = "interrupted"
    /\ poll.result = [calculation_status |-> "timeout", log |-> <<TimeoutNotice>>,
                      figure_str |-> "absent"]
    /\ now - poll.start_time = MAX_COMPUTATION_TIME + POLL_INTERVAL

\* C28: in one pass finished goes before timeout: a record read as finished
\* in a pass at which the elapsed time exceeds the maximum is returned as
\* finished.
C28_FinishedBeforeTimeout ==
    [][(/\ PollIteration
        /\ ReadRecord(disk, Target).calculation_status = "finished"
        /\ TimedOut(now - poll.start_time)) =>
          /\ poll'.pc = "done"
          /\ poll'.result.calculation_status = "finished"
          /\ poll'.result.log = ReadRecord(disk, Target).status_file_content]_vars

\* the record became finished 3603 s after the poll began and was returned
\* as finished by the pass at 3605 s
C28_Witness ==
    /\ poll.pc = "done"
    /\ poll.result.calculation_status = "finished"
    /\ finishedAt - poll.start_time = MAX_COMPUTATION_TIME + 3
    /\ now - poll.start_time = MAX_COMPUTATION_TIME + POLL_INTERVAL

\* C30: the tick that observes finished or interrupted emits its status-file
\* content before the stream ends: a stream that has ended has emitted at
\* least one snapshot, its last one is the content read in the terminal tick,
\* and a record terminal at the first tick gives exactly one snapshot.
C30_TerminalTickEmits ==
    stream.pc = "ended" =>
        /\ Len(stream.emitted) >= 1
        /\ stream.emitted[Len(stream.emitted)] =
              status_file_content(disk, from_file(disk, Target))
        /\ Len(stream.observed) = 1 => Len(stream.emitted) = 1

\* the stream of a record that was already interrupted ended after one tick
\* with one snapshot
C30_Witness ==
    /\ stream.pc = "ended"
    /\ stream.observed = <<"interrupted">>
    /\ Len(stream.emitted) = 1

-----------------------------------------------------------------------------
(* perform_calculation in two processes, file operation by file operation *)

RaceVarsIdle == proj = Unconstructed /\ sync = FALSE /\ RecIdle /\ WatchIdle

\* the output_calculation_id each caller passes, "" for None
RaceOutputIds == {"c2", "c3", ""}

\* a project of one or two records, all initialized; each process is about
\* to call perform_calculation with its own arguments
InitRace ==
    /\ disk \in {BuildProject(<<>>).disk, BuildProject(<<"relax">>).disk}
    /\ lastCall = NoCall
    /\ RaceVarsIdle
    /\ reader = NoRead
    /\ orch \in [Procs -> {[OrchOff EXCEPT !.pc = "load",
                                            !.calculation_type = r[1],
                                            !.calculation_parameters = r[2],
                                            !.output_calculation_id = id] :
                              r \in AddRequests, id \in RaceOutputIds}]

\* uuid4 in process p: an ID no folder, no index entry and no other call carries
RaceUuid(p) ==
    LET taken == UsedIds(disk) \cup {orch[q].output_calculation_id : q \in Procs \ {p}}
    IN {IdSeq[i] : i \in {j \in 1..Len(IdSeq) :
                             /\ IdSeq[j] \notin taken
                             /\ \A k \in 1..(j - 1) : IdSeq[k] \in taken}}

\* CalculationProject(project_folder_path), the choice of input_info and of
\* the output ID
OrchLoad(p) ==
    /\ orch[p].pc = "load"
    /\ LET calculation_record == load(disk)
           sel == SelectInput(calculation_record, orch[p].calculation_type)
       IN IF sel.error # "none"
          THEN orch' = [orch EXCEPT ![p].pc = "failed", ![p].error = sel.error]
          ELSE \E new_id \in (IF orch[p].output_calculation_id = "" THEN RaceUuid(p)
                               ELSE {orch[p].output_calculation_id}) :
                 orch' = [orch EXCEPT ![p].pc = "create",
                                      ![p].calculation_record = calculation_record,
                                      ![p].input = sel.input,
                                      ![p].output_calculation_id = new_id]
    /\ UNCHANGED <<disk, proj, lastCall, sync, recVars, watchVars, reader>>

\* add_new: new_info = CalculationInfo(...)
OrchCreate(p) ==
    /\ orch[p].pc = "create"
    /\ LET made == CalculationInfoInit(disk, Root, orch[p].output_calculation_id,
                                       orch[p].calculation_type,
                                       orch[p].calculation_parameters)
       IN /\ disk' = made.disk
          /\ orch' = [orch EXCEPT ![p].pc = "save", ![p].new_info = made.info]
    /\ UNCHANGED <<proj, lastCall, sync, recVars, watchVars, reader>>

\* mutant: the index is rewritten together with the record file
OrchSave_IndexToo(p) ==
    /\ orch[p].pc = "save"
    /\ disk' = update_calculation_id_list(
                   save_to_file(disk, orch[p].new_info),
                   Listed(Append(orch[p].calculation_record.info_list, orch[p].new_info)))
    /\ orch' = [orch EXCEPT
                  ![p].pc = "index",
                  ![p].calculation_record =
                      Listed(Append(@.info_list, orch[p].new_info)),
                  ![p].new_info = NoInfo]
    /\ UNCHANGED <<proj, lastCall, sync, recVars, watchVars, reader>>

\* add_new: info_list.append(new_info); new_info.save_to_file()
OrchSave(p) ==
    /\ orch[p].pc = "save"
    /\ disk' = save_to_file(disk, orch[p].new_info)
    /\ orch' = [orch EXCEPT
                  ![p].pc = "index",
                  ![p].calculation_record =
                      Listed(Append(@.info_list, orch[p].new_info)),
                  ![p].new_info = NoInfo]
    /\ UNCHANGED <<proj, lastCall, sync, recVars, watchVars, reader>>

\* add_new: update_calculation_id_list()
OrchIndex(p) ==
    /\ orch[p].pc = "index"
    /\ disk' = update_calculation_id_list(disk, orch[p].calculation_record)
    /\ orch' = [orch EXCEPT ![p].pc = "handoff"]
    /\ UNCHANGED <<proj, lastCall, sync, recVars, watchVars, reader>>

\* perform_calculation_by_id(input_info.calculation_id, output_calculation_id, ...)
OrchHandoff(p) ==
    /\ orch[p].pc = "handoff"
    /\ LET input_info == orch[p].calculation_record.info_list[orch[p].input]
           done == perform_calculation_by_id(disk, input_info.calculation_id,
                                             orch[p].output_calculation_id)
       IN /\ disk' = done.disk
          /\ orch' = [orch EXCEPT ![p].pc = IF done.error = "none" THEN "done"
                                            ELSE "failed",
                                  ![p].error = done.error]
    /\ UNCHANGED <<proj, lastCall, sync, recVars, watchVars, reader>>

\* a poller or streamer reads the status of a record
ReadStatus(calculation_id) ==
    /\ \E p \in Procs : orch[p].pc \notin {"off", "done", "failed"}
    /\ LET read == ReadRecord(disk, calculation_id) IN
       reader' = [calculation_id |-> calculation_id,
                  calculation_status |-> read.calculation_status,
                  finished |-> IF read.calculation_status = "finished"
                               THEN reader.finished \cup {calculation_id}
                               ELSE reader.finished]
    /\ UNCHANGED <<disk, proj, lastCall, sync, recVars, watchVars, orch>>

NextRace ==
    \/ \E p \in Procs : OrchLoad(p)
    \/ \E p \in Procs : OrchCreate(p)
    \/ \E p \in Procs : OrchSave(p)
    \/ \E p \in Procs : OrchIndex(p)
    \/ \E p \in Procs : OrchHandoff(p)
    \/ \E id \in {"c2", "c3"} : ReadStatus(id)

SpecRace == InitRace /\ [][NextRace]_vars

-----------------------------------------------------------------------------
(* Properties of overlapping invocations *)

\* C11: once a read of a record has observed the status finished, no later
\* read of that record observes another status, whatever the interleaving of
\* perform_calculation invocations and reads.
C11_FinishedStaysFinished ==
    reader.calculation_id \in reader.finished =>
        reader.calculation_status = "finished"

NewId(p) == orch[p].output_calculation_id
LocalIds(p) == IdsOf(orch[p].calculation_record.info_list)
InSeq(id, ids) == \E k \in 1..Len(ids) : ids[k] = id

\* both invocations have returned, each having appended an ID that was new
\* to the history it loaded, the two IDs distinct
BothAppended ==
    /\ \A p \in Procs : orch[p].pc = "done"
    /\ NewId(1) # NewId(2)
    /\ \A p \in Procs :
          Cardinality({k \in 1..Len(LocalIds(p)) : LocalIds(p)[k] = NewId(p)}) = 1

\* C20: appends from two processes are not safe.  When both invocations have
\* returned, both record files exist and the index is the history of one of
\* them; it lists both new IDs only if that one loaded the index after the
\* other had rewritten it, and otherwise lists only one of the two new IDs.
C20_IndexLosesOverlappedAppend ==
    BothAppended =>
        /\ \A p \in Procs : InfoExists(disk, NewId(p))
        /\ \E p \in Procs : disk.index.ids = LocalIds(p)
        /\ (\A p \in Procs : InSeq(NewId(p), disk.index.ids))
              <=> (\E p \in Procs : \A q \in Procs : InSeq(NewId(q), LocalIds(p)))

\* both invocations loaded the index [c1] before either rewrote it: both
\* have returned, both record files exist, the index lists only c3
C20_Witness ==
    /\ BothAppended
    /\ {NewId(p) : p \in Procs} = {"c2", "c3"}
    /\ InfoExists(disk, "c2") /\ InfoExists(disk, "c3")
    /\ disk.index.ids = <<"c1", "c3">>

-----------------------------------------------------------------------------
(* Properties of the handoff *)

StatusOf(d, calculation_id) == from_file(d, calculation_id).calculation_status

\* the statuses of the records of d, read unchanged in e
SameStatuses(d, e) ==
    \A id \in DOMAIN d.info :
        id \in DOMAIN e.info /\ StatusOf(e, id) = StatusOf(d, id)

C26_InputIsNotOutput ==
    (lastCall.op = "perform_calculation" /\ lastCall.error = "none") =>
        /\ lastCall.input \in 1..Len(lastCall.hist.info_list)
        /\ lastCall.hist.info_list[lastCall.input].calculation_id # lastCall.output

\* C19: when the input record or the output record is missing at handoff,
\* perform_calculation_by_id fails with its ValueError "No input/output
\* information found", and no record is changed.
C19_MissingRecordValueError ==
    [][\A input_id \in HandoffInputs, output_id \in HandoffOutputs :
          (/\ PerformCalculationById(input_id, output_id)
           /\ (~InfoExists(disk, input_id) \/ ~InfoExists(disk, output_id))) =>
              (lastCall'.error = "ValueError" /\ disk' = disk)]_vars

-----------------------------------------------------------------------------
(* Bootstrap and append in one process that may crash between file operations *)

\* the one process; after a crash or a return the next invocation starts
Worker == 1

Resting == {"off", "crashed", "done", "failed"}

\* the output_calculation_id passed to perform_calculation, "" for None
CrashOutputIds == {"c3", ""}

\* no project folder, or an empty one
InitCrash ==
    /\ disk \in {EmptyDisk, [EmptyDisk EXCEPT !.exists = TRUE]}
    /\ lastCall = NoCall
    /\ RaceVarsIdle
    /\ RaceIdle

\* CalculationProject(project_folder_path, structure): the emptiness test,
\* os.makedirs of the project folder and the choice of the ID
StartBootstrap(structure) ==
    /\ orch[Worker].pc \in Resting
    /\ IF BootstrapRefused(disk)
       THEN /\ orch' = [orch EXCEPT ![Worker] =
                          [OrchOff EXCEPT !.pc = "failed", !.error = "ValueError"]]
            /\ UNCHANGED disk
       ELSE \E calculation_id \in uuid4(disk) :
              /\ disk' = [disk EXCEPT !.exists = TRUE]
              /\ orch' = [orch EXCEPT ![Worker] =
                            [OrchOff EXCEPT !.pc = "boot_info",
                                            !.calculation_type = "initial_structure",
                                            !.output_calculation_id = calculation_id,
                                            !.structure = structure]]
    /\ UNCHANGED <<proj, lastCall, sync, recVars, watchVars, reader>>

\* __init__: info = CalculationInfo(..., calculation_type='initial_structure')
BootInfo ==
    /\ orch[Worker].pc = "boot_info"
    /\ LET made == CalculationInfoInit(disk, Root, orch[Worker].output_calculation_id,
                                       "initial_structure", NoParams)
       IN /\ disk' = made.disk
          /\ orch' = [orch EXCEPT ![Worker].pc = "boot_structure",
                                  ![Worker].new_info = made.info]
    /\ UNCHANGED <<proj, lastCall, sync, recVars, watchVars, reader>>

\* __init__: info.update_structure(structure); self.info_list = [info]
BootStructure ==
    /\ orch[Worker].pc = "boot_structure"
    /\ disk' = update_structure(disk, orch[Worker].new_info, orch[Worker].structure)
    /\ orch' = [orch EXCEPT ![Worker].pc = "boot_index",
                            ![Worker].calculation_record =
                                Listed(<<orch[Worker].new_info>>),
                            ![Worker].new_info = NoInfo]
    /\ UNCHANGED <<proj, lastCall, sync, recVars, watchVars, reader>>

\* __init__: self.update_calculation_id_list()
BootIndex ==
    /\ orch[Worker].pc = "boot_index"
    /\ disk' = update_calculation_id_list(disk, orch[Worker].calculation_record)
    /\ orch' = [orch EXCEPT ![Worker].pc = "done"]
    /\ UNCHANGED <<proj, lastCall, sync, recVars, watchVars, reader>>

\* perform_calculation(calculation_type, calculation_parameters,
\* project_folder_path, output_calculation_id) is called
StartPerform(calculation_type, calculation_parameters, output_calculation_id) ==
    /\ orch[Worker].pc \in Resting
    /\ Len(disk.index.ids) < MaxHist
    /\ orch' = [orch EXCEPT ![Worker] =
                  [OrchOff EXCEPT !.pc = "load",
                                  !.calculation_type = calculation_type,
                                  !.calculation_parameters = calculation_parameters,
                                  !.output_calculation_id = output_calculation_id]]
    /\ UNCHANGED <<disk, proj, lastCall, sync, recVars, watchVars, reader>>

\* the process dies between two file operations; what it held in memory is
\* lost, the files stay as they are
Crash ==
    /\ orch[Worker].pc \notin Resting
    /\ lastCall' = [NoCall EXCEPT !.op = "crash",
                                  !.at = orch[Worker].pc,
                                  !.calculation_type = orch[Worker].calculation_type,
                                  !.hist = orch[Worker].calculation_record,
                                  !.output = orch[Worker].output_calculation_id]
    /\ orch' = [orch EXCEPT ![Worker] = [OrchOff EXCEPT !.pc = "crashed"]]
    /\ UNCHANGED <<disk, proj, sync, recVars, watchVars, reader>>

NextCrash ==
    \/ \E structure \in Structures : StartBootstrap(structure)
    \/ BootInfo
    \/ BootStructure
    \/ BootIndex
    \/ \E r \in AddRequests, id \in CrashOutputIds : StartPerform(r[1], r[2], id)
    \/ OrchLoad(Worker)
    \/ OrchCreate(Worker)
    \/ OrchSave(Worker)
    \/ OrchIndex(Worker)
    \/ OrchHandoff(Worker)
    \/ Crash

SpecCrash == InitCrash /\ [][NextCrash]_vars

\* the history add_new was called on, seen from the point of the crash
HistoryBeforeAppend ==
    IF lastCall.at = "index"
    THEN SubSeq(lastCall.hist.info_list, 1, Len(lastCall.hist.info_list) - 1)
    ELSE lastCall.hist.info_list

\* the process has crashed inside add_new, after the constructor has written
\* the record file and before the index is rewritten, the ID being new to the
\* history
CrashedBeforeIndex ==
    /\ orch[Worker].pc = "crashed"
    /\ lastCall.op = "crash"
    /\ lastCall.at \in {"save", "index"}
    /\ \A i \in 1..Len(HistoryBeforeAppend) :
          HistoryBeforeAppend[i].calculation_id # lastCall.output

\* C21: after a crash inside add_new between the write of the new record's
\* file and the rewrite of the index, the record file is on disk, its ID is
\* not in calculation_id_list.json, and a reload gives a history without it.
C21_CrashLeavesUnlistedRecord ==
    CrashedBeforeIndex =>
        /\ InfoExists(disk, lastCall.output)
        /\ lastCall.output \notin IndexIds(disk)
        /\ load(disk).state = "list"
        /\ \A i \in 1..Len(load(disk).info_list) :
              load(disk).info_list[i].calculation_id # lastCall.output

\* the crash came after the second save of the record, on a project of one record
C21_Witness ==
    /\ CrashedBeforeIndex
    /\ lastCall.at = "index"
    /\ Len(disk.index.ids) = 1
    /\ InfoExists(disk, lastCall.output)

\* C25: at every point of bootstrap and append, the points where the process
\* has crashed included, every ID in calculation_id_list.json has its
\* info.json on disk.
C25_IndexedRecordsOnDisk ==
    \A i \in 1..Len(disk.index.ids) : InfoExists(disk, disk.index.ids[i])

\* after a crash that left a record out of the index, a later append has
\* completed: the index lists two records, a third is on disk unlisted
C25_Witness ==
    /\ lastCall.op = "crash"
    /\ orch[Worker].pc = "done"
    /\ Len(disk.index.ids) = 2
    /\ \E id \in DOMAIN disk.info : id \notin IndexIds(disk)

====
